---- MODULE Spec2Model ----
(***************************************************************************)
(* Payment completion, vendor balance ledger and payout processing of the  *)
(* zeno backend (server/zeno_backend/payments, vendors, orders).           *)
(*                                                                         *)
(* Money stored in the database (DecimalField, decimal_places=2) is an     *)
(* integer number of cents.  Values held in memory by a handler are        *)
(* Decimals that may carry more digits; they are integers in units of      *)
(* 1/10000 cent ("ticks").  ToMem loads a stored value, Quantize stores    *)
(* one (round half even to two decimal places).                            *)
(*                                                                         *)
(* There is one vendor; every order belongs to it.  The CheckoutRequestID  *)
(* the gateway issues for the STK push of order o is written o, the        *)
(* payout_reference of payout request r is written r.                      *)
(*                                                                         *)
(* VendorEarning.objects.create in Payment._create_vendor_earning may      *)
(* raise: at this revision it passes order=..., and the order field of     *)
(* VendorEarning is commented out (vendors/models.py:86-92).  Both         *)
(* outcomes of the call are modelled (create_ok).                          *)
(***************************************************************************)
EXTENDS Integers, Sequences, FiniteSets, TLC

\* ---------------------------------------------------------------- bounds
\* requests (API calls and gateway callbacks) handled in one run
MaxCalls == 8
\* STK callbacks the gateway delivers in a run of the concurrent workers
MaxConcCallbacks == 2

\* total_amount, in cents, of the orders that exist (50.00 and 100.00)
OrderTotals == <<5000, 10000>>
Orders == DOMAIN OrderTotals
\* a reference the system never issued (a blank transaction_id is 0)
UnknownRef == -1
CheckoutIds == Orders \cup {UnknownRef}
ResultCodes == {0, 1}
PayoutAmounts == {2000, 6000}
\* Order.status choices; NoStatus is a request body without a status
OrderStatuses == {"pending", "confirmed", "in_progress", "completed",
                  "cancelled", "failed"}
NoStatus == "absent"
\* quantity of a gas-product order, and the stock of the product before any order
Quantities == {1, 2}
InitialStock == 3
\* GasProduct.price_with_cylinder, in cents
UnitPrice == 5000
\* timezone.now(): a timestamp that is set (0: null)
timezone_now == 1

\* ------------------------------------------------------------ arithmetic
\* MpesaConfiguration.default_commission_rate, in hundredths of a percent
default_commission_rate == 1000
\* the default of Vendor.commission_rate, in hundredths of a percent
vendor_commission_rate == 1000
\* 100 percent, in hundredths of a percent
MaxRate == 10000
\* commission rates a caller submits: -1.00, 0, 2.50, 10.00 and 150.00 percent
RateInputs == {-100, 0, 250, 15000}
\* no commission_rate in the request body
NoRate == -1
\* total_amount, in cents, of the order whose commission is computed
GrossAmounts == {0, 1005, 10000}

ToMem(cents) == cents * 10000

Quantize(ticks) ==
    LET q == ticks \div 10000
        r == ticks % 10000
    IN  IF r > 5000 \/ (r = 5000 /\ q % 2 = 1) THEN q + 1 ELSE q

\* (amount * commission_rate) / 100 on in-memory values; an amount is a whole
\* number of cents
CommissionOf(amount, rate) == (amount \div 10000) * rate

\* Order.save, lines 180-182: vendor_earnings as it is stored, for an order of
\* total_amount total (cents) whose vendor_earnings is not set
OrderEarnings(total, rate) ==
    IF total # 0 /\ rate # 0
    THEN Quantize(ToMem(total) - CommissionOf(ToMem(total), rate))
    ELSE 0

\* ----------------------------------------------------------------- state
VARIABLES
    orders,               \* Order rows: status ("none": not created), quantity,
                          \* total_amount, payment_status, confirmed_at, completed_at
    product,              \* the GasProduct row: stock_quantity, is_available
    tracking,             \* OrderTracking rows per order: their statuses, in order
    payments,             \* Payment rows, one per order (OneToOneField)
    earnings,             \* VendorEarning rows, in creation order
    vendor,               \* the Vendor row's ledger fields
    mpesa_config,         \* the active MpesaConfiguration row
    payout_requests,      \* PayoutRequest rows, in creation order (id = index)
    payout_transactions,  \* PayoutTransaction rows, in creation order
    stk_history,          \* result codes of the STK callbacks handled, per payment
    credits,              \* how often the ledger credit block ran, per payment
    lastCall,             \* the last request handled and its response
    calls,                \* number of requests handled
    pc,                   \* position of each concurrent callback worker
    local                 \* the model instances a worker holds in memory

vars == <<orders, product, tracking, payments, earnings, vendor, mpesa_config,
          payout_requests, payout_transactions, stk_history, credits, lastCall,
          calls, pc, local>>

\* what the payment and payout handlers never touch
stockVars == <<product, tracking>>

\* what the order handlers never touch
paymentVars == <<payments, earnings, vendor, mpesa_config, payout_requests,
                 payout_transactions, stk_history, credits, pc, local>>

dbVars == <<orders, payments, earnings, vendor, mpesa_config, payout_requests,
            payout_transactions>>

Workers == {1, 2}

\* the Payment of an order (status "none": the order has none); rows is the
\* number of Payment rows inserted for the order
NoPayment ==
    [status |-> "none", transaction_id |-> 0, amount |-> 0,
     commission_rate |-> 0, commission_amount |-> 0, vendor_earnings |-> 0,
     payout_status |-> "pending", vendor_earning |-> 0, rows |-> 0]

NoVendor == [total_earnings |-> 0, available_balance |-> 0,
             pending_payouts |-> 0, total_paid_out |-> 0,
             commission_rate |-> vendor_commission_rate]

NoLocal == [ref |-> 0, code |-> 0, payment |-> NoPayment, vendor |-> NoVendor]

\* the answer to a request; successful and failed are the result lists that
\* bulk_process_payouts reports (empty for every other operation)
Call(op, resp) == [op |-> op, resp |-> resp, successful |-> <<>>, failed |-> <<>>]

RECURSIVE SumLen(_, _)
SumLen(h, S) ==
    IF S = {} THEN 0
    ELSE LET x == CHOOSE y \in S : TRUE
         IN  Len(h[x]) + SumLen(h, S \ {x})

\* STK callbacks delivered so far for payments that exist
StkDelivered == SumLen(stk_history, Orders)

\* a request is received and answered
Answered(op, resp) ==
    /\ calls < MaxCalls
    /\ calls' = calls + 1
    /\ lastCall' = Call(op, resp)

\* a request to the payments application is received and answered
Handled(op, resp) ==
    /\ Answered(op, resp)
    /\ UNCHANGED stockVars

\* the rows of the payments application, and the request bookkeeping
PaymentsInit ==
    /\ payments = [o \in Orders |-> NoPayment]
    /\ earnings = <<>>
    /\ vendor = NoVendor
    /\ mpesa_config = [auto_process_payouts |-> TRUE,
                       default_commission_rate |-> default_commission_rate]
    /\ payout_requests = <<>>
    /\ payout_transactions = <<>>
    /\ stk_history = [o \in Orders |-> <<>>]
    /\ credits = [o \in Orders |-> 0]
    /\ lastCall = Call("none", "none")
    /\ calls = 0
    /\ pc = [w \in Workers |-> "idle"]
    /\ local = [w \in Workers |-> NoLocal]

\* both orders have been placed (one unit each) and none is paid
Init ==
    /\ orders = [o \in Orders |-> [status |-> "pending", quantity |-> 1,
                                   total_amount |-> OrderTotals[o],
                                   payment_status |-> "pending",
                                   commission_rate |-> vendor_commission_rate,
                                   vendor_earnings |->
                                       OrderEarnings(OrderTotals[o],
                                                     vendor_commission_rate),
                                   order_type |-> "gas_product", items |-> <<>>,
                                   confirmed_at |-> 0, completed_at |-> 0]]
    /\ product = [stock_quantity |-> InitialStock - 2, is_available |-> TRUE]
    /\ tracking = [o \in Orders |-> <<"pending">>]
    /\ PaymentsInit

\* no order has been placed yet
NoOrder ==
    [status |-> "none", quantity |-> 0, total_amount |-> 0,
     payment_status |-> "pending", commission_rate |-> vendor_commission_rate,
     vendor_earnings |-> 0, order_type |-> "gas_product", items |-> <<>>,
     confirmed_at |-> 0, completed_at |-> 0]

InitOrders ==
    /\ orders = [o \in Orders |-> NoOrder]
    /\ product = [stock_quantity |-> InitialStock, is_available |-> TRUE]
    /\ tracking = [o \in Orders |-> <<>>]
    /\ PaymentsInit

\* ------------------------------------------------------- model methods
\* Payment.save, lines 90-94, on the in-memory instance (ticks)
PaymentSaveCalc(m) ==
    LET c == IF m.amount # 0 /\ m.commission_amount = 0
             THEN CommissionOf(m.amount, m.commission_rate)
             ELSE m.commission_amount
        n == IF m.amount # 0 /\ c # 0 /\ m.vendor_earnings = 0
             THEN m.amount - c
             ELSE m.vendor_earnings
    IN  [m EXCEPT !.commission_amount = c, !.vendor_earnings = n]

\* Payment.save, line 97: the condition under which save creates the earning
PaymentSaveCreatesEarning(m) ==
    m.status = "completed" /\ m.payout_status = "pending" /\ m.vendor_earning = 0

\* a Payment row read into memory / an in-memory Payment written to its row
PaymentLoad(p) ==
    [p EXCEPT !.amount = ToMem(p.amount),
              !.commission_amount = ToMem(p.commission_amount),
              !.vendor_earnings = ToMem(p.vendor_earnings)]

PaymentStore(m) ==
    [m EXCEPT !.amount = Quantize(m.amount),
              !.commission_amount = Quantize(m.commission_amount),
              !.vendor_earnings = Quantize(m.vendor_earnings)]

\* VendorEarning.save, lines 124-128, then the INSERT
VendorEarningSave(e) ==
    LET c == IF e.commission_amount = 0 /\ e.gross_amount # 0 /\ e.commission_rate # 0
             THEN CommissionOf(e.gross_amount, e.commission_rate)
             ELSE e.commission_amount
        n == IF e.net_amount = 0 /\ e.gross_amount # 0 /\ c # 0
             THEN e.gross_amount - c
             ELSE e.net_amount
    IN  [e EXCEPT !.gross_amount = Quantize(e.gross_amount),
                  !.commission_amount = Quantize(c),
                  !.net_amount = Quantize(n)]

\* Payment._create_vendor_earning: the row created for in-memory payment m of order o
NewVendorEarning(o, m) ==
    VendorEarningSave([payment |-> o,
                       earning_type |-> "order",
                       gross_amount |-> m.amount,
                       commission_rate |-> m.commission_rate,
                       commission_amount |-> m.commission_amount,
                       net_amount |-> m.vendor_earnings,
                       status |-> "pending"])

\* Payment._create_vendor_earning: the in-memory payment afterwards
LinkVendorEarning(m, id) ==
    [m EXCEPT !.vendor_earning = id, !.payout_status = "processed"]

\* ----------------------------------------------------- ledger updates
\* _handle_stk_callback, lines 529-532 (net is in ticks)
CreditVendor(v, net) ==
    [v EXCEPT !.available_balance = Quantize(ToMem(v.available_balance) + net),
              !.total_earnings = Quantize(ToMem(v.total_earnings) + net)]

\* PayoutRequestViewSet.process, lines 319-322
DeductForPayout(v, amount) ==
    [v EXCEPT !.available_balance = v.available_balance - amount,
              !.pending_payouts = v.pending_payouts + amount]

\* mutant of ConfirmPayout: the confirmed amount is not added to total_paid_out
ConfirmPayout_NoPaidOut(v, amount) ==
    [v EXCEPT !.pending_payouts = v.pending_payouts - amount]

\* _handle_b2c_callback, lines 571-574
ConfirmPayout(v, amount) ==
    [v EXCEPT !.pending_payouts = v.pending_payouts - amount,
              !.total_paid_out = v.total_paid_out + amount]

\* mutant of RevertPayout: pending_payouts is released and available_balance
\* is not refunded
RevertPayout_NoRefund(v, amount) ==
    [v EXCEPT !.pending_payouts = v.pending_payouts - amount]

\* mutant of RevertPayout: the amount returns to available_balance and stays
\* in pending_payouts
RevertPayout_KeepPending(v, amount) ==
    [v EXCEPT !.available_balance = v.available_balance + amount]

\* _handle_b2c_callback, lines 598-601
RevertPayout(v, amount) ==
    [v EXCEPT !.available_balance = v.available_balance + amount,
              !.pending_payouts = v.pending_payouts - amount]

\* mutant of can_be_processed: the balance is not compared with the amount
can_be_processed_StatusOnly(req, v) ==
    req.status = "approved"

\* PayoutRequest.can_be_processed
can_be_processed(req, v) ==
    req.status = "approved" /\ v.available_balance >= req.amount

\* ------------------------------------------------------------- payments
\* initiate_payment (with InitiatePaymentSerializer.validate_order_id),
\* payment_method mpesa; gw_ok: the gateway accepts the STK push
\* mutant of HasPayment: the check for an existing payment never finds one
HasPayment_Never(o) == FALSE

\* hasattr(order, 'payment'), lines 393-398 and InitiatePaymentSerializer
HasPayment(o) == payments[o].status # "none"

InitiatePayment(o, gw_ok) ==
    IF orders[o].status = "none"
    THEN /\ Handled("initiate_payment", "order_not_found")
         /\ UNCHANGED <<dbVars, stk_history, credits, pc, local>>
    ELSE IF HasPayment(o)
    THEN /\ Handled("initiate_payment", "payment_exists")
         /\ UNCHANGED <<dbVars, stk_history, credits, pc, local>>
    ELSE LET m0 == [NoPayment EXCEPT !.status = "pending",
                                     !.rows = payments[o].rows + 1,
                                     !.amount = ToMem(orders[o].total_amount),
                                     !.commission_rate =
                                         mpesa_config.default_commission_rate]
             m1 == PaymentSaveCalc(m0)
             c  == CommissionOf(m1.amount, m1.commission_rate)
             m2 == PaymentSaveCalc([m1 EXCEPT !.commission_amount = c,
                                              !.vendor_earnings = m1.amount - c])
             m3 == IF gw_ok
                   THEN PaymentSaveCalc([m2 EXCEPT !.transaction_id = o,
                                                   !.status = "processing"])
                   ELSE PaymentSaveCalc([m2 EXCEPT !.status = "failed"])
         IN  /\ payments' = [payments EXCEPT ![o] = PaymentStore(m3)]
             /\ Handled("initiate_payment", IF gw_ok THEN "ok" ELSE "gateway_error")
             /\ UNCHANGED <<orders, earnings, vendor, mpesa_config, payout_requests,
                            payout_transactions, stk_history, credits, pc, local>>

\* mutant of PaymentsWithTransactionId: a reference that matches no payment
\* is resolved to the payments that exist
PaymentsWithTransactionId_AnyPayment(c) ==
    LET exact == {o \in Orders : payments[o].status # "none" /\ payments[o].transaction_id = c}
    IN  IF exact # {} THEN exact ELSE {o \in Orders : payments[o].status # "none"}

\* Payment.objects.get(transaction_id=checkout_request_id)
PaymentsWithTransactionId(c) ==
    {o \in Orders : payments[o].status # "none" /\ payments[o].transaction_id = c}

\* _handle_stk_callback, result_code == 0 (lines 504-536, 545-548), for the
\* payment of order o loaded as m0
StkSuccess(o, m0, create_ok) ==
    LET auto == mpesa_config.auto_process_payouts
        id   == Len(earnings) + 1
        m1   == [m0 EXCEPT !.status = "completed"]
        mS   == PaymentSaveCalc(IF auto THEN LinkVendorEarning(m1, id) ELSE m1)
        saveCreates == PaymentSaveCreatesEarning(mS)
        mF   == IF saveCreates THEN LinkVendorEarning(mS, id) ELSE mS
        creates == auto \/ saveCreates
    IN  /\ orders' = [orders EXCEPT ![o].payment_status = "paid"]
        /\ IF creates /\ ~create_ok
           THEN /\ Handled("stk_callback", "error")
                /\ UNCHANGED <<payments, earnings, vendor, credits>>
           ELSE /\ earnings' = IF creates
                               THEN Append(earnings,
                                           NewVendorEarning(o, IF auto THEN m1 ELSE mS))
                               ELSE earnings
                /\ vendor' = IF auto THEN CreditVendor(vendor, m1.vendor_earnings)
                             ELSE vendor
                /\ credits' = IF auto THEN [credits EXCEPT ![o] = @ + 1] ELSE credits
                /\ payments' = [payments EXCEPT ![o] = PaymentStore(mF)]
                /\ Handled("stk_callback", "ok")

\* mutant of StkFailure: the failed payment is credited to the vendor all the same
StkFailure_CreditsVendor(o, m0) ==
    /\ payments' = [payments EXCEPT
                      ![o] = PaymentStore(PaymentSaveCalc([m0 EXCEPT !.status = "failed"]))]
    /\ vendor' = CreditVendor(vendor, m0.vendor_earnings)
    /\ Handled("stk_callback", "ok")
    /\ UNCHANGED <<orders, earnings, credits>>

\* _handle_stk_callback, result_code != 0 (lines 538-548)
StkFailure(o, m0) ==
    /\ payments' = [payments EXCEPT
                      ![o] = PaymentStore(PaymentSaveCalc([m0 EXCEPT !.status = "failed"]))]
    /\ Handled("stk_callback", "ok")
    /\ UNCHANGED <<orders, earnings, vendor, credits>>

\* retry_payment for the payment of order o; gw_ok: the gateway would accept
\* an STK push.  The reset payment is saved, then initiate_payment is called
\* for the same request and refuses it, because the order has a payment
RetryPayment(o, gw_ok) ==
    IF ~HasPayment(o)
    THEN /\ Handled("retry_payment", "payment_not_found")
         /\ UNCHANGED <<dbVars, stk_history, credits, pc, local>>
    ELSE IF payments[o].status # "failed"
    THEN /\ Handled("retry_payment", "not_failed")
         /\ UNCHANGED <<dbVars, stk_history, credits, pc, local>>
    ELSE LET m0 == PaymentLoad(payments[o])
             m1 == PaymentSaveCalc([m0 EXCEPT !.status = "pending",
                                              !.transaction_id = 0])
         IN  /\ payments' = [payments EXCEPT ![o] = PaymentStore(m1)]
             /\ Handled("retry_payment", "payment_exists")
             /\ UNCHANGED <<orders, earnings, vendor, mpesa_config, payout_requests,
                            payout_transactions, stk_history, credits, pc, local>>

\* mpesa_callback -> _handle_stk_callback, the whole request
HandleStkCallback(c, code, create_ok) ==
    LET found == PaymentsWithTransactionId(c)
    IN  IF found = {}
        THEN /\ Handled("stk_callback", "payment_not_found")
             /\ UNCHANGED <<dbVars, stk_history, credits, pc, local>>
        ELSE LET o == CHOOSE x \in found : TRUE
             IN  /\ stk_history' = [stk_history EXCEPT ![o] = Append(@, code)]
                 /\ IF code = 0
                    THEN StkSuccess(o, PaymentLoad(payments[o]), create_ok)
                    ELSE StkFailure(o, PaymentLoad(payments[o]))
                 /\ UNCHANGED <<mpesa_config, payout_requests, payout_transactions,
                                pc, local>>

\* the admin edits MpesaConfiguration.auto_process_payouts
SetAutoProcessPayouts(b) ==
    /\ b # mpesa_config.auto_process_payouts
    /\ mpesa_config' = [mpesa_config EXCEPT !.auto_process_payouts = b]
    /\ Handled("set_config", "ok")
    /\ UNCHANGED <<orders, payments, earnings, vendor, payout_requests,
                   payout_transactions, stk_history, credits, pc, local>>

\* payments, their callbacks and retries
NextRetry ==
    \/ \E o \in Orders, gw_ok \in BOOLEAN : InitiatePayment(o, gw_ok)
    \/ \E c \in CheckoutIds, code \in ResultCodes, create_ok \in BOOLEAN :
          HandleStkCallback(c, code, create_ok)
    \/ \E o \in Orders, gw_ok \in BOOLEAN : RetryPayment(o, gw_ok)

SpecRetry == Init /\ [][NextRetry]_vars

\* -------------------------------------------------------------- payouts
PayoutRequestIds == DOMAIN payout_requests

\* PayoutRequestViewSet.create (PayoutRequestCreateSerializer.validate, perform_create)
CreatePayoutRequest(amount) ==
    /\ IF amount > vendor.available_balance
       THEN /\ Handled("create_payout_request", "validation_error")
            /\ UNCHANGED payout_requests
       ELSE /\ payout_requests' = Append(payout_requests,
                                         [status |-> "pending", amount |-> amount])
            /\ Handled("create_payout_request", "ok")
    /\ UNCHANGED <<orders, payments, earnings, vendor, mpesa_config,
                   payout_transactions, stk_history, credits, pc, local>>

\* PayoutRequestViewSet.approve
ApprovePayoutRequest(r) ==
    /\ IF payout_requests[r].status # "pending"
       THEN /\ Handled("approve", "not_pending")
            /\ UNCHANGED payout_requests
       ELSE /\ payout_requests' = [payout_requests EXCEPT ![r].status = "approved"]
            /\ Handled("approve", "ok")
    /\ UNCHANGED <<orders, payments, earnings, vendor, mpesa_config,
                   payout_transactions, stk_history, credits, pc, local>>

\* PayoutRequestViewSet.process; gw_ok: the gateway accepts the B2C request
ProcessPayoutRequest(r, gw_ok) ==
    /\ LET req == payout_requests[r]
       IN  IF req.status # "approved"
           THEN /\ Handled("process", "not_approved")
                /\ UNCHANGED <<payout_requests, payout_transactions, vendor>>
           ELSE IF ~can_be_processed(req, vendor)
           THEN /\ Handled("process", "insufficient_balance")
                /\ UNCHANGED <<payout_requests, payout_transactions, vendor>>
           ELSE IF ~gw_ok
           THEN /\ payout_requests' = [payout_requests EXCEPT ![r].status = "failed"]
                /\ Handled("process", "gateway_error")
                /\ UNCHANGED <<payout_transactions, vendor>>
           ELSE /\ payout_requests' = [payout_requests EXCEPT ![r].status = "processing"]
                /\ payout_transactions' =
                       Append(payout_transactions,
                              [payout_reference |-> r, amount |-> req.amount,
                               status |-> "processing"])
                /\ vendor' = DeductForPayout(vendor, req.amount)
                /\ Handled("process", "ok")
    /\ UNCHANGED <<orders, payments, earnings, mpesa_config, stk_history,
                   credits, pc, local>>

\* PayoutTransaction.objects.get(payout_reference=...)
TransactionsWithReference(ref) ==
    {t \in DOMAIN payout_transactions : payout_transactions[t].payout_reference = ref}

\* PayoutRequest.objects.filter(vendor=, amount=, status='processing').first()
\* under Meta.ordering = ['-created_at']: the newest matching request, 0 if none
FirstProcessingRequest(amount) ==
    LET match == {r \in PayoutRequestIds : payout_requests[r].status = "processing"
                                           /\ payout_requests[r].amount = amount}
    IN  IF match = {} THEN 0
        ELSE CHOOSE r \in match : \A y \in match : y <= r

\* mpesa_callback -> _handle_b2c_callback, the whole request
HandleB2cCallback(ref, code) ==
    LET found == TransactionsWithReference(ref)
    IN  IF found = {}
        THEN /\ Handled("b2c_callback", "payout_not_found")
             /\ UNCHANGED <<dbVars, stk_history, credits, pc, local>>
        ELSE LET t   == CHOOSE x \in found : TRUE
                 txn == payout_transactions[t]
                 req == FirstProcessingRequest(txn.amount)
             IN  /\ IF code = 0
                    THEN /\ payout_transactions' =
                                [payout_transactions EXCEPT ![t].status = "completed"]
                         /\ vendor' = ConfirmPayout(vendor, txn.amount)
                         /\ payout_requests' =
                                IF req = 0 THEN payout_requests
                                ELSE [payout_requests EXCEPT ![req].status = "completed"]
                    ELSE /\ payout_transactions' =
                                [payout_transactions EXCEPT ![t].status = "failed"]
                         /\ vendor' = RevertPayout(vendor, txn.amount)
                         /\ UNCHANGED payout_requests
                 /\ Handled("b2c_callback", "ok")
                 /\ UNCHANGED <<orders, payments, earnings, mpesa_config, stk_history,
                                credits, pc, local>>

\* --------------------------------------------------------- bulk payouts
\* the ids of a queryset of payout requests in its order, Meta.ordering =
\* ['-created_at']: newest first
RECURSIVE NewestFirst(_)
NewestFirst(ids) ==
    IF ids = {} THEN <<>>
    ELSE LET r == CHOOSE x \in ids : \A y \in ids : y <= x
         IN  <<r>> \o NewestFirst(ids \ {r})

\* mutant of BulkOne: a gateway failure undoes what the batch has done so far
BulkOne_RollsBack(acc, r, gw_ok) ==
    LET req == acc.requests[r]
    IN  IF ~can_be_processed(req, acc.vendor)
        THEN [acc EXCEPT !.failed = Append(@, r)]
        ELSE IF ~gw_ok
        THEN [requests |-> payout_requests, transactions |-> payout_transactions,
              vendor |-> vendor, successful |-> <<>>,
              failed |-> acc.successful \o Append(acc.failed, r)]
        ELSE [acc EXCEPT !.requests[r].status = "processing",
                         !.transactions =
                             Append(@, [payout_reference |-> r, amount |-> req.amount,
                                        status |-> "processing"]),
                         !.vendor = DeductForPayout(@, req.amount),
                         !.successful = Append(@, r)]

\* bulk_process_payouts, lines 759-814: one turn of the loop, for request r;
\* gw_ok: the gateway accepts the B2C request
BulkOne(acc, r, gw_ok) ==
    LET req == acc.requests[r]
    IN  IF ~can_be_processed(req, acc.vendor)
        THEN [acc EXCEPT !.failed = Append(@, r)]
        ELSE IF ~gw_ok
        THEN [acc EXCEPT !.failed = Append(@, r)]
        ELSE [acc EXCEPT !.requests[r].status = "processing",
                         !.transactions =
                             Append(@, [payout_reference |-> r, amount |-> req.amount,
                                        status |-> "processing"]),
                         !.vendor = DeductForPayout(@, req.amount),
                         !.successful = Append(@, r)]

\* the loop over the requests todo, in order; refused: the requests the
\* gateway does not accept
RECURSIVE BulkLoop(_, _, _)
BulkLoop(acc, todo, refused) ==
    IF todo = <<>> THEN acc
    ELSE BulkLoop(BulkOne(acc, Head(todo), Head(todo) \notin refused),
                  Tail(todo), refused)

\* bulk_process_payouts, the whole request, for the ids of the body
BulkProcessPayouts(ids, refused) ==
    /\ ids # {}
    /\ refused \subseteq ids
    /\ IF \E r \in ids : payout_requests[r].status # "approved"
       THEN /\ refused = {}
            /\ Handled("bulk_process_payouts", "validation_error")
            /\ UNCHANGED <<payout_requests, payout_transactions, vendor>>
       ELSE LET done == BulkLoop([requests |-> payout_requests,
                                  transactions |-> payout_transactions,
                                  vendor |-> vendor,
                                  successful |-> <<>>, failed |-> <<>>],
                                 NewestFirst(ids), refused)
            IN  /\ payout_requests' = done.requests
                /\ payout_transactions' = done.transactions
                /\ vendor' = done.vendor
                /\ calls < MaxCalls
                /\ calls' = calls + 1
                /\ lastCall' = [Call("bulk_process_payouts", "ok")
                                  EXCEPT !.successful = done.successful,
                                         !.failed = done.failed]
                /\ UNCHANGED stockVars
    /\ UNCHANGED <<orders, payments, earnings, mpesa_config, stk_history,
                   credits, pc, local>>

\* the payment of order 2 has been completed by its callback and credited
PaidState ==
    /\ orders = [o \in Orders |-> [status |-> "pending", quantity |-> 1,
                                   total_amount |-> OrderTotals[o],
                                   payment_status |->
                                       IF o = 2 THEN "paid" ELSE "pending",
                                   commission_rate |-> vendor_commission_rate,
                                   vendor_earnings |->
                                       OrderEarnings(OrderTotals[o],
                                                     vendor_commission_rate),
                                   order_type |-> "gas_product", items |-> <<>>,
                                   confirmed_at |-> 0, completed_at |-> 0]]
    /\ payments = [o \in Orders |->
                     IF o = 2
                     THEN [status |-> "completed", transaction_id |-> 2,
                           amount |-> 10000, commission_rate |-> 1000,
                           commission_amount |-> 1000, vendor_earnings |-> 9000,
                           payout_status |-> "processed", vendor_earning |-> 1,
                           rows |-> 1]
                     ELSE NoPayment]
    /\ earnings = <<[payment |-> 2, earning_type |-> "order",
                     gross_amount |-> 10000, commission_rate |-> 1000,
                     commission_amount |-> 1000, net_amount |-> 9000,
                     status |-> "pending"]>>
    /\ vendor = [NoVendor EXCEPT !.total_earnings = 9000,
                                 !.available_balance = 9000]
    /\ mpesa_config = [auto_process_payouts |-> TRUE,
                       default_commission_rate |-> default_commission_rate]
    /\ payout_requests = <<>>
    /\ payout_transactions = <<>>
    /\ stk_history = [o \in Orders |-> IF o = 2 THEN <<0>> ELSE <<>>]
    /\ credits = [o \in Orders |-> IF o = 2 THEN 1 ELSE 0]

InitPayouts ==
    /\ PaidState
    /\ product = [stock_quantity |-> InitialStock - 2, is_available |-> TRUE]
    /\ tracking = [o \in Orders |-> <<"pending">>]
    /\ lastCall = Call("none", "none")
    /\ calls = 0
    /\ pc = [w \in Workers |-> "idle"]
    /\ local = [w \in Workers |-> NoLocal]

NextPayouts ==
    \/ \E amount \in PayoutAmounts : CreatePayoutRequest(amount)
    \/ \E r \in PayoutRequestIds : ApprovePayoutRequest(r)
    \/ \E r \in PayoutRequestIds, gw_ok \in BOOLEAN : ProcessPayoutRequest(r, gw_ok)
    \/ \E ids \in SUBSET PayoutRequestIds : \E refused \in SUBSET ids :
          BulkProcessPayouts(ids, refused)
    \/ \E r \in PayoutRequestIds, code \in ResultCodes : HandleB2cCallback(r, code)

SpecPayouts == InitPayouts /\ [][NextPayouts]_vars

\* single payouts and their callbacks; every request that has been sent is
\* handled
NextSinglePayouts ==
    \/ \E amount \in PayoutAmounts : CreatePayoutRequest(amount)
    \/ \E r \in PayoutRequestIds : ApprovePayoutRequest(r)
    \/ \E r \in PayoutRequestIds, gw_ok \in BOOLEAN : ProcessPayoutRequest(r, gw_ok)
    \/ \E r \in PayoutRequestIds, code \in ResultCodes : HandleB2cCallback(r, code)

SpecPayoutsFair ==
    InitPayouts /\ [][NextSinglePayouts]_vars /\ WF_vars(NextSinglePayouts)

\* ------------------------------------------- concurrent STK callbacks
\* The same handler, one database access at a time, run by two request
\* workers.  A worker holds the model instances it has loaded in local[w];
\* Model.save() writes every field of the instance back to its row.

\* _handle_stk_callback, lines 489-502: the payment is looked up
StkLookup(w, c, code) ==
    /\ pc[w] = "idle"
    /\ LET found == PaymentsWithTransactionId(c)
       IN  IF found = {}
           THEN /\ Handled("stk_callback", "payment_not_found")
                /\ UNCHANGED <<dbVars, stk_history, credits, pc, local>>
           ELSE LET o == CHOOSE x \in found : TRUE
                IN  /\ StkDelivered < MaxConcCallbacks
                    /\ calls < MaxCalls
                    /\ calls' = calls + 1
                    /\ stk_history' = [stk_history EXCEPT ![o] = Append(@, code)]
                    /\ local' = [local EXCEPT ![w] =
                                    [ref |-> o, code |-> code,
                                     payment |-> PaymentLoad(payments[o]),
                                     vendor |-> NoVendor]]
                    /\ pc' = [pc EXCEPT ![w] = "found"]
                    /\ UNCHANGED <<dbVars, stockVars, credits, lastCall>>

\* lines 504-521 (the order is marked paid and saved) or 538-543
StkMarkOrderPaid(w) ==
    /\ pc[w] = "found"
    /\ IF local[w].code = 0
       THEN /\ local' = [local EXCEPT ![w].payment.status = "completed"]
            /\ orders' = [orders EXCEPT ![local[w].ref].payment_status = "paid"]
            /\ pc' = [pc EXCEPT ![w] = "config"]
       ELSE /\ local' = [local EXCEPT ![w].payment.status = "failed"]
            /\ pc' = [pc EXCEPT ![w] = "save"]
            /\ UNCHANGED orders
    /\ UNCHANGED <<payments, earnings, vendor, mpesa_config, payout_requests,
                   payout_transactions, stk_history, credits, lastCall, calls,
                   stockVars>>

\* lines 524-526: the configuration is read; with auto_process_payouts the
\* vendor row is loaded (self.order.vendor) and the VendorEarning inserted
StkCreateEarning(w, create_ok) ==
    /\ pc[w] = "config"
    /\ IF ~mpesa_config.auto_process_payouts
       THEN /\ pc' = [pc EXCEPT ![w] = "save"]
            /\ UNCHANGED <<earnings, local, lastCall>>
       ELSE IF ~create_ok
       THEN /\ pc' = [pc EXCEPT ![w] = "idle"]
            /\ local' = [local EXCEPT ![w] = NoLocal]
            /\ lastCall' = Call("stk_callback", "error")
            /\ UNCHANGED earnings
       ELSE /\ earnings' = Append(earnings,
                                  NewVendorEarning(local[w].ref, local[w].payment))
            /\ local' = [local EXCEPT
                            ![w].payment = LinkVendorEarning(@, Len(earnings) + 1),
                            ![w].vendor = vendor]
            /\ pc' = [pc EXCEPT ![w] = "credit"]
            /\ UNCHANGED lastCall
    /\ UNCHANGED <<orders, payments, vendor, mpesa_config, payout_requests,
                   payout_transactions, stk_history, credits, calls, stockVars>>

\* lines 529-532: the loaded vendor instance is credited and saved
StkCreditVendor(w) ==
    /\ pc[w] = "credit"
    /\ vendor' = CreditVendor(local[w].vendor, local[w].payment.vendor_earnings)
    /\ credits' = [credits EXCEPT ![local[w].ref] = @ + 1]
    /\ pc' = [pc EXCEPT ![w] = "save"]
    /\ UNCHANGED <<orders, payments, earnings, mpesa_config, payout_requests,
                   payout_transactions, stk_history, lastCall, calls, local,
                   stockVars>>

\* lines 545-548: payment.save()
StkSavePayment(w, create_ok) ==
    /\ pc[w] = "save"
    /\ LET o  == local[w].ref
           id == Len(earnings) + 1
           mS == PaymentSaveCalc(local[w].payment)
           saveCreates == PaymentSaveCreatesEarning(mS)
           mF == IF saveCreates THEN LinkVendorEarning(mS, id) ELSE mS
       IN  IF saveCreates /\ ~create_ok
           THEN /\ lastCall' = Call("stk_callback", "error")
                /\ UNCHANGED <<payments, earnings>>
           ELSE /\ earnings' = IF saveCreates
                               THEN Append(earnings, NewVendorEarning(o, mS))
                               ELSE earnings
                /\ payments' = [payments EXCEPT ![o] = PaymentStore(mF)]
                /\ lastCall' = Call("stk_callback", "ok")
    /\ pc' = [pc EXCEPT ![w] = "idle"]
    /\ local' = [local EXCEPT ![w] = NoLocal]
    /\ UNCHANGED <<orders, vendor, mpesa_config, payout_requests,
                   payout_transactions, stk_history, credits, calls, stockVars>>

NextConc ==
    \/ \E o \in Orders, gw_ok \in BOOLEAN : InitiatePayment(o, gw_ok)
    \/ \E b \in BOOLEAN : SetAutoProcessPayouts(b)
    \/ \E w \in Workers, c \in CheckoutIds, code \in ResultCodes : StkLookup(w, c, code)
    \/ \E w \in Workers : StkMarkOrderPaid(w)
    \/ \E w \in Workers, create_ok \in BOOLEAN : StkCreateEarning(w, create_ok)
    \/ \E w \in Workers : StkCreditVendor(w)
    \/ \E w \in Workers, create_ok \in BOOLEAN : StkSavePayment(w, create_ok)

SpecConc == Init /\ [][NextConc]_vars

\* ----------------------------------------------------------- commission
\* PaymentViewSet.process_commission with ProcessCommissionSerializer; rate is
\* the commission_rate of the body (NoRate: none given)
ProcessCommission(o, rate, create_ok) ==
    /\ payments[o].status # "none"
    /\ IF payments[o].status # "completed"
       THEN /\ Handled("process_commission", "not_completed")
            /\ UNCHANGED <<payments, earnings>>
       ELSE IF rate # NoRate /\ (rate < 0 \/ rate > MaxRate)
       THEN /\ Handled("process_commission", "validation_error")
            /\ UNCHANGED <<payments, earnings>>
       ELSE LET m0 == PaymentLoad(payments[o])
                m1 == IF rate # NoRate /\ rate # 0
                      THEN [m0 EXCEPT !.commission_rate = rate] ELSE m0
                c  == CommissionOf(m1.amount, m1.commission_rate)
                m2 == [m1 EXCEPT !.commission_amount = c,
                                 !.vendor_earnings = m1.amount - c]
                creates == m2.vendor_earning = 0
                m3 == IF creates THEN LinkVendorEarning(m2, Len(earnings) + 1) ELSE m2
            IN  IF creates /\ ~create_ok
                THEN /\ Handled("process_commission", "error")
                     /\ UNCHANGED <<payments, earnings>>
                ELSE /\ earnings' = IF creates
                                    THEN Append(earnings, NewVendorEarning(o, m2))
                                    ELSE earnings
                     /\ payments' = [payments EXCEPT
                                       ![o] = PaymentStore(PaymentSaveCalc(m3))]
                     /\ Handled("process_commission", "ok")
    /\ UNCHANGED <<orders, vendor, mpesa_config, payout_requests,
                   payout_transactions, stk_history, credits, pc, local>>

\* the admin form of MpesaConfiguration: default_commission_rate is edited;
\* the field carries MinValueValidator(0) and no upper bound
SetDefaultCommissionRate(rate) ==
    /\ IF rate < 0
       THEN /\ Handled("set_default_rate", "validation_error")
            /\ UNCHANGED mpesa_config
       ELSE /\ mpesa_config' = [mpesa_config EXCEPT !.default_commission_rate = rate]
            /\ Handled("set_default_rate", "ok")
    /\ UNCHANGED <<orders, payments, earnings, vendor, payout_requests,
                   payout_transactions, stk_history, credits, pc, local>>

\* Vendor.save, lines 377-381: the commission rate as it is stored
VendorSave(v) ==
    IF v.commission_rate < 0 THEN [v EXCEPT !.commission_rate = 0]
    ELSE IF v.commission_rate > MaxRate THEN [v EXCEPT !.commission_rate = MaxRate]
    ELSE v

\* a caller sets Vendor.commission_rate and saves the vendor
SaveVendor(rate) ==
    /\ vendor' = VendorSave([vendor EXCEPT !.commission_rate = rate])
    /\ Handled("save_vendor", "ok")
    /\ UNCHANGED <<orders, payments, earnings, mpesa_config, payout_requests,
                   payout_transactions, stk_history, credits, pc, local>>

\* one order has been placed, of any of the gross amounts; nothing is paid
InitCommission ==
    /\ \E g \in GrossAmounts :
          orders = [o \in Orders |->
                      IF o = 1
                      THEN [NoOrder EXCEPT !.status = "pending", !.quantity = 1,
                                           !.total_amount = g,
                                           !.vendor_earnings =
                                               OrderEarnings(g, vendor_commission_rate)]
                      ELSE NoOrder]
    /\ product = [stock_quantity |-> InitialStock - 1, is_available |-> TRUE]
    /\ tracking = [o \in Orders |-> IF o = 1 THEN <<"pending">> ELSE <<>>]
    /\ PaymentsInit

NextCommission ==
    \/ \E o \in Orders, gw_ok \in BOOLEAN : InitiatePayment(o, gw_ok)
    \/ \E c \in CheckoutIds, code \in ResultCodes, create_ok \in BOOLEAN :
          HandleStkCallback(c, code, create_ok)
    \/ \E o \in Orders, rate \in RateInputs \cup {NoRate}, create_ok \in BOOLEAN :
          ProcessCommission(o, rate, create_ok)
    \/ \E rate \in RateInputs : SetDefaultCommissionRate(rate)
    \/ \E rate \in RateInputs : SaveVendor(rate)

SpecCommission == InitCommission /\ [][NextCommission]_vars

\* --------------------------------------------------------------- orders
\* Order.save, lines 179-188: vendor_earnings is computed when it is not set,
\* and the timestamps are set from the status (now: the time of the save)
OrderSave(ord, now) ==
    LET e == IF ord.vendor_earnings = 0
             THEN [ord EXCEPT !.vendor_earnings =
                                  OrderEarnings(ord.total_amount, ord.commission_rate)]
             ELSE ord
    IN  IF e.status = "confirmed" /\ e.confirmed_at = 0
        THEN [e EXCEPT !.confirmed_at = now]
        ELSE IF e.status = "completed" /\ e.completed_at = 0
        THEN [e EXCEPT !.completed_at = now]
        ELSE e

\* GasProduct.save: availability follows the stock (is_active is True)
GasProductSave(p) ==
    [p EXCEPT !.is_available = (p.stock_quantity > 0)]

\* OrderViewSet._create_gas_product_order: the stock taken by a new order
ReserveStock(p, quantity) ==
    GasProductSave([p EXCEPT !.stock_quantity = p.stock_quantity - quantity])

\* mutant of RestoreStock: the product is saved with its stock as it was
RestoreStock_Nothing(p, quantity) ==
    GasProductSave(p)

\* OrderViewSet.cancel: the stock given back by a cancelled gas-product order
RestoreStock(p, quantity) ==
    GasProductSave([p EXCEPT !.stock_quantity = p.stock_quantity + quantity])

\* mutant of valid_transitions: a completed order may still be cancelled
valid_transitions_CancelCompleted(current) ==
    CASE current = "pending"     -> {"confirmed", "cancelled"}
      [] current = "confirmed"   -> {"in_progress", "cancelled"}
      [] current = "in_progress" -> {"completed", "cancelled"}
      [] current = "completed"   -> {"cancelled"}
      [] OTHER                   -> {}

\* valid_transitions of UpdateOrderStatusSerializer.validate_status and of
\* bulk_update_status
valid_transitions(current) ==
    CASE current = "pending"     -> {"confirmed", "cancelled"}
      [] current = "confirmed"   -> {"in_progress", "cancelled"}
      [] current = "in_progress" -> {"completed", "cancelled"}
      [] OTHER                   -> {}

CreatedOrders == {o \in Orders : orders[o].status # "none"}

\* OrderViewSet.create with CreateGasProductOrderSerializer; the new order
\* gets the next id
CreateGasProductOrder(quantity) ==
    IF ~product.is_available \/ product.stock_quantity < quantity
    THEN /\ Answered("create_order", "validation_error")
         /\ UNCHANGED <<orders, product, tracking, paymentVars>>
    ELSE /\ CreatedOrders # Orders
         /\ LET o == CHOOSE x \in Orders \ CreatedOrders :
                        \A y \in Orders \ CreatedOrders : x <= y
            IN  /\ product' = ReserveStock(product, quantity)
                /\ orders' = [orders EXCEPT ![o] =
                                 OrderSave([NoOrder EXCEPT
                                               !.status = "pending",
                                               !.quantity = quantity,
                                               !.commission_rate =
                                                   vendor.commission_rate,
                                               !.total_amount = UnitPrice * quantity],
                                           timezone_now)]
                /\ tracking' = [tracking EXCEPT ![o] = <<"pending">>]
         /\ Answered("create_order", "ok")
         /\ UNCHANGED paymentVars

\* OrderViewSet.update_status with UpdateOrderStatusSerializer
UpdateStatus(o, new_status) ==
    /\ o \in CreatedOrders
    /\ IF new_status = NoStatus
       THEN /\ Answered("update_status", "error")
            /\ UNCHANGED <<orders, tracking>>
       ELSE IF new_status \notin valid_transitions(orders[o].status)
       THEN /\ Answered("update_status", "invalid_transition")
            /\ UNCHANGED <<orders, tracking>>
       ELSE /\ tracking' = [tracking EXCEPT ![o] = Append(@, new_status)]
            /\ orders' = [orders EXCEPT ![o] =
                             OrderSave([@ EXCEPT !.status = new_status], timezone_now)]
            /\ Answered("update_status", "ok")
    /\ UNCHANGED <<product, paymentVars>>

\* bulk_update_status, the loop body for one order
BulkUpdateOne(ord, new_status, now) ==
    IF new_status \notin valid_transitions(ord.status)
    THEN ord
    ELSE LET a == [ord EXCEPT !.status = new_status]
             b == IF new_status = "confirmed" /\ a.confirmed_at = 0
                  THEN [a EXCEPT !.confirmed_at = now]
                  ELSE IF new_status = "completed" /\ a.completed_at = 0
                  THEN [a EXCEPT !.completed_at = now]
                  ELSE a
         IN  OrderSave(b, now)

\* OrderViewSet.bulk_update_status for the orders ids of the vendor
BulkUpdateStatus(ids, new_status) ==
    /\ ids # {}
    /\ ids \subseteq CreatedOrders
    /\ orders' = [o \in Orders |->
                     IF o \in ids THEN BulkUpdateOne(orders[o], new_status, timezone_now)
                     ELSE orders[o]]
    /\ tracking' = [o \in Orders |->
                       IF o \in ids /\ new_status \in valid_transitions(orders[o].status)
                       THEN Append(tracking[o], new_status)
                       ELSE tracking[o]]
    /\ Answered("bulk_update_status", "ok")
    /\ UNCHANGED <<product, paymentVars>>

\* the quantities of the gas-product items of a mixed order: one or two items
\* of the product
MixedItemLists ==
    {<<q>> : q \in Quantities} \cup {<<q1, q2>> : q1 \in Quantities, q2 \in Quantities}

RECURSIVE SumItems(_)
SumItems(items) ==
    IF items = <<>> THEN 0 ELSE Head(items) + SumItems(Tail(items))

\* _create_mixed_order, lines 314-319: every item takes its quantity from the
\* GasProduct instance that validate_items loaded for it (loaded) and saves
\* that instance; p is the row
RECURSIVE ReserveItems(_, _, _)
ReserveItems(p, loaded, items) ==
    IF items = <<>> THEN p
    ELSE ReserveItems(ReserveStock(loaded, Head(items)), loaded, Tail(items))

\* OrderViewSet.cancel, lines 411-416: every item gives its quantity back to
\* the product as it is read for that item
RECURSIVE RestoreItems(_, _)
RestoreItems(p, items) ==
    IF items = <<>> THEN p
    ELSE RestoreItems(RestoreStock(p, Head(items)), Tail(items))

\* OrderViewSet.create with CreateMixedOrderSerializer, for items of the product
CreateMixedOrder(items) ==
    IF ~product.is_available
          \/ \E i \in DOMAIN items : product.stock_quantity < items[i]
    THEN /\ Answered("create_mixed_order", "validation_error")
         /\ UNCHANGED <<orders, product, tracking, paymentVars>>
    ELSE /\ CreatedOrders # Orders
         /\ LET o == CHOOSE x \in Orders \ CreatedOrders :
                        \A y \in Orders \ CreatedOrders : x <= y
            IN  /\ product' = ReserveItems(product, product, items)
                /\ orders' = [orders EXCEPT ![o] =
                                 OrderSave([NoOrder EXCEPT
                                               !.status = "pending",
                                               !.order_type = "mixed",
                                               !.quantity = 1,
                                               !.items = items,
                                               !.commission_rate =
                                                   vendor.commission_rate,
                                               !.total_amount =
                                                   UnitPrice * SumItems(items)],
                                           timezone_now)]
                /\ tracking' = [tracking EXCEPT ![o] = <<"pending">>]
         /\ Answered("create_mixed_order", "ok")
         /\ UNCHANGED paymentVars

\* OrderViewSet.cancel
CancelOrder(o) ==
    /\ o \in CreatedOrders
    /\ IF orders[o].status \in {"completed", "cancelled"}
       THEN /\ Answered("cancel", "cannot_cancel")
            /\ UNCHANGED <<orders, product, tracking>>
       ELSE /\ product' = IF orders[o].order_type = "mixed"
                           THEN RestoreItems(product, orders[o].items)
                           ELSE RestoreStock(product, orders[o].quantity)
            /\ orders' = [orders EXCEPT ![o] =
                             OrderSave([@ EXCEPT !.status = "cancelled"], timezone_now)]
            /\ tracking' = [tracking EXCEPT ![o] = Append(@, "cancelled")]
            /\ Answered("cancel", "ok")
    /\ UNCHANGED paymentVars

\* the admin change form of an order (status is an editable field): an order
\* in progress is marked failed; no handler of the API writes this status
AdminMarkOrderFailed(o) ==
    /\ orders[o].status \in {"pending", "confirmed", "in_progress"}
    /\ orders' = [orders EXCEPT ![o] = OrderSave([@ EXCEPT !.status = "failed"],
                                                 timezone_now)]
    /\ Answered("admin_mark_failed", "ok")
    /\ UNCHANGED <<product, tracking, paymentVars>>

NextOrders ==
    \/ \E quantity \in Quantities : CreateGasProductOrder(quantity)
    \/ \E o \in Orders, s \in OrderStatuses \cup {NoStatus} : UpdateStatus(o, s)
    \/ \E ids \in SUBSET Orders, s \in OrderStatuses : BulkUpdateStatus(ids, s)
    \/ \E o \in Orders : CancelOrder(o)
    \/ \E o \in Orders : AdminMarkOrderFailed(o)

SpecOrders == InitOrders /\ [][NextOrders]_vars

\* orders for the product, single and mixed, and their cancellation
NextStock ==
    \/ \E quantity \in Quantities : CreateGasProductOrder(quantity)
    \/ \E items \in MixedItemLists : CreateMixedOrder(items)
    \/ \E o \in Orders : CancelOrder(o)

SpecStock == InitOrders /\ [][NextStock]_vars

\* orders placed and paid under commission rates that the vendor and the
\* configuration are given
NextRates ==
    \/ \E rate \in {0, vendor_commission_rate} : SaveVendor(rate)
    \/ \E rate \in {0, default_commission_rate} : SetDefaultCommissionRate(rate)
    \/ \E quantity \in Quantities : CreateGasProductOrder(quantity)
    \/ \E o \in Orders, gw_ok \in BOOLEAN : InitiatePayment(o, gw_ok)
    \/ \E c \in Orders, code \in ResultCodes, create_ok \in BOOLEAN :
          HandleStkCallback(c, code, create_ok)

SpecRates == InitOrders /\ [][NextRates]_vars

\* ------------------------------------------------------- specification
Next ==
    \/ \E o \in Orders, gw_ok \in BOOLEAN : InitiatePayment(o, gw_ok)
    \/ \E c \in CheckoutIds, code \in ResultCodes, create_ok \in BOOLEAN :
          HandleStkCallback(c, code, create_ok)
    \/ \E b \in BOOLEAN : SetAutoProcessPayouts(b)
    \/ \E amount \in PayoutAmounts : CreatePayoutRequest(amount)
    \/ \E r \in PayoutRequestIds : ApprovePayoutRequest(r)
    \/ \E r \in PayoutRequestIds, gw_ok \in BOOLEAN : ProcessPayoutRequest(r, gw_ok)
    \/ \E ref \in PayoutRequestIds \cup {UnknownRef}, code \in ResultCodes :
          HandleB2cCallback(ref, code)

Spec == Init /\ [][Next]_vars

\* --------------------------------------------------------------- claims
\* the VendorEarning rows of the payment of order o
EarningsOf(o) == {e \in DOMAIN earnings : earnings[e].payment = o}

TerminalPaymentStatus == {"completed", "failed"}

C3_TerminalPaymentUnchanged ==
    [][\A o \in Orders, code \in ResultCodes, create_ok \in BOOLEAN :
          (/\ payments[o].status \in TerminalPaymentStatus
           /\ payments[o].transaction_id # 0
           /\ HandleStkCallback(payments[o].transaction_id, code, create_ok))
          => (/\ payments'[o].status = payments[o].status
              /\ orders' = orders
              /\ earnings' = earnings
              /\ vendor' = vendor)]_vars

\* C4: available_balance + pending_payouts never exceeds total_earnings,
\* whatever payments complete and payouts are initiated, confirmed, failed or
\* have their callbacks redelivered.
C4_LedgerConservation ==
    vendor.available_balance + vendor.pending_payouts <= vendor.total_earnings

\* a payout was initiated and its callback delivered more than once
C4_Witness ==
    /\ vendor.total_earnings > 0
    /\ vendor.pending_payouts < 0
    /\ \E t \in DOMAIN payout_transactions :
          payout_transactions[t].status \in {"completed", "failed"}

RECURSIVE SumAmounts(_)
SumAmounts(T) ==
    IF T = {} THEN 0
    ELSE LET t == CHOOSE x \in T : TRUE
         IN  payout_transactions[t].amount + SumAmounts(T \ {t})

CompletedPayouts ==
    {t \in DOMAIN payout_transactions : payout_transactions[t].status = "completed"}

TerminalPayoutStatus == {"completed", "failed", "cancelled"}

RECURSIVE CreditedNet(_)
CreditedNet(S) ==
    IF S = {} THEN 0
    ELSE LET o == CHOOSE x \in S : TRUE
         IN  credits[o] * payments[o].vendor_earnings + CreditedNet(S \ {o})

C8_CompletionAtomic ==
    \A o \in Orders :
        LET completed == payments[o].status = "completed"
            paid      == orders[o].payment_status = "paid"
            earned    == EarningsOf(o) # {}
            credited  == credits[o] >= 1
        IN  \/ (completed /\ paid /\ earned /\ credited)
            \/ (~completed /\ ~paid /\ ~earned /\ ~credited)

\* C9: processing a payout request whose amount exceeds the vendor's
\* available_balance is rejected: no PayoutTransaction is created, the
\* gateway is not called (the request is neither processing nor failed) and
\* the ledger is unchanged.
C9_InsufficientBalanceRejected ==
    [][\A r \in PayoutRequestIds, gw_ok \in BOOLEAN :
          (/\ payout_requests[r].status = "approved"
           /\ payout_requests[r].amount > vendor.available_balance
           /\ ProcessPayoutRequest(r, gw_ok))
          => (/\ lastCall' = Call("process", "insufficient_balance")
              /\ payout_transactions' = payout_transactions
              /\ payout_requests' = payout_requests
              /\ vendor' = vendor)]_vars

\* an approved request larger than the balance has just been refused
C9_Witness ==
    /\ lastCall = Call("process", "insufficient_balance")
    /\ \E r \in PayoutRequestIds :
          /\ payout_requests[r].status = "approved"
          /\ payout_requests[r].amount > vendor.available_balance

\* C10: a successful payout of amount a moves funds in two steps: initiation
\* takes a from available_balance into pending_payouts and records a
\* processing PayoutTransaction; the success callback of a processing
\* transaction takes a from pending_payouts into total_paid_out and completes it.
C10_PayoutTwoSteps ==
    [][/\ \A r \in PayoutRequestIds :
            (ProcessPayoutRequest(r, TRUE) /\ lastCall' = Call("process", "ok"))
            => LET a == payout_requests[r].amount
               IN  /\ vendor'.available_balance = vendor.available_balance - a
                   /\ vendor'.pending_payouts = vendor.pending_payouts + a
                   /\ vendor'.total_paid_out = vendor.total_paid_out
                   /\ vendor'.total_earnings = vendor.total_earnings
                   /\ payout_transactions' =
                          Append(payout_transactions,
                                 [payout_reference |-> r, amount |-> a,
                                  status |-> "processing"])
       /\ \A t \in DOMAIN payout_transactions :
            (/\ payout_transactions[t].status = "processing"
             /\ HandleB2cCallback(payout_transactions[t].payout_reference, 0))
            => LET a == payout_transactions[t].amount
               IN  /\ vendor'.pending_payouts = vendor.pending_payouts - a
                   /\ vendor'.total_paid_out = vendor.total_paid_out + a
                   /\ vendor'.available_balance = vendor.available_balance
                   /\ vendor'.total_earnings = vendor.total_earnings
                   /\ payout_transactions'[t].status = "completed"]_vars

\* one payout went through both steps: nothing pending, its amount paid out
C10_Witness ==
    /\ Len(payout_transactions) = 1
    /\ payout_transactions[1].status = "completed"
    /\ vendor.pending_payouts = 0
    /\ vendor.total_paid_out = payout_transactions[1].amount
    /\ vendor.available_balance = vendor.total_earnings - payout_transactions[1].amount

\* C11: a failure callback for a processing payout of amount a reverses the
\* initiation: pending_payouts decreases by a, available_balance increases by
\* a, total_paid_out and total_earnings are unchanged and the transaction
\* becomes failed; the reversal undoes the initiation's ledger update exactly.
C11_FailureReversesInitiation ==
    [][/\ \A t \in DOMAIN payout_transactions :
            (/\ payout_transactions[t].status = "processing"
             /\ HandleB2cCallback(payout_transactions[t].payout_reference, 1))
            => LET a == payout_transactions[t].amount
               IN  /\ vendor'.pending_payouts = vendor.pending_payouts - a
                   /\ vendor'.available_balance = vendor.available_balance + a
                   /\ vendor'.total_paid_out = vendor.total_paid_out
                   /\ vendor'.total_earnings = vendor.total_earnings
                   /\ payout_transactions'[t].status = "failed"
       /\ \A r \in PayoutRequestIds :
            (ProcessPayoutRequest(r, TRUE) /\ lastCall' = Call("process", "ok"))
            => RevertPayout(vendor', payout_requests[r].amount) = vendor]_vars

\* one payout was initiated and failed: the ledger is as before the initiation
C11_Witness ==
    /\ lastCall = Call("b2c_callback", "ok")
    /\ Len(payout_transactions) = 1
    /\ payout_transactions[1].status = "failed"
    /\ vendor.total_earnings > 0
    /\ vendor.pending_payouts = 0
    /\ vendor.total_paid_out = 0
    /\ vendor.available_balance = vendor.total_earnings

\* the transitions the order state machine allows
TransitionTable ==
    {<<"pending", "confirmed">>, <<"pending", "cancelled">>,
     <<"confirmed", "in_progress">>, <<"confirmed", "cancelled">>,
     <<"in_progress", "completed">>, <<"in_progress", "cancelled">>}

\* C12: update_status and bulk_update_status accept exactly the transitions
\* of the table; any other requested transition leaves the order as it was
\* (status, confirmed_at, completed_at) and adds no tracking entry.
C12_OnlyTableTransitions ==
    [][/\ \A o \in Orders, s \in OrderStatuses :
            (lastCall'.op = "update_status" /\ UpdateStatus(o, s))
            => IF <<orders[o].status, s>> \in TransitionTable
               THEN orders'[o].status = s
               ELSE /\ orders' = orders
                    /\ tracking' = tracking
                    /\ lastCall' = Call("update_status", "invalid_transition")
       /\ \A ids \in SUBSET Orders, s \in OrderStatuses :
            (lastCall'.op = "bulk_update_status" /\ BulkUpdateStatus(ids, s))
            => \A o \in ids :
                 IF <<orders[o].status, s>> \in TransitionTable
                 THEN orders'[o].status = s
                 ELSE orders'[o] = orders[o] /\ tracking'[o] = tracking[o]]_vars

\* a transition outside the table has just been refused for an order that
\* went through accepted ones
C12_Witness ==
    /\ lastCall = Call("update_status", "invalid_transition")
    /\ \E o \in Orders : tracking[o] = <<"pending", "confirmed", "in_progress">>
                          /\ orders[o].status = "in_progress"

TerminalOrderStatus == {"completed", "cancelled", "failed"}

\* C13: completed, cancelled and failed are terminal: update_status,
\* bulk_update_status and cancel never change the status of an order in one
\* of them.
C13_TerminalOrderStatus ==
    [][\A o \in Orders :
          (/\ orders[o].status \in TerminalOrderStatus
           /\ \/ \E s \in OrderStatuses \cup {NoStatus} : UpdateStatus(o, s)
              \/ \E ids \in SUBSET Orders, s \in OrderStatuses :
                    o \in ids /\ BulkUpdateStatus(ids, s)
              \/ CancelOrder(o))
          => orders'[o].status = orders[o].status]_vars

\* C14: cancelling a pending, confirmed or in-progress gas-product order of
\* quantity q sets it cancelled and adds exactly q to the stock; cancelling a
\* cancelled order is rejected and changes neither the order nor the stock.
C14_CancelRestoresOnce ==
    [][\A o \in Orders :
          CancelOrder(o)
          => /\ orders[o].status \in {"pending", "confirmed", "in_progress"}
                => /\ orders'[o].status = "cancelled"
                   /\ product'.stock_quantity =
                         product.stock_quantity + orders[o].quantity
             /\ orders[o].status = "cancelled"
                => /\ lastCall' = Call("cancel", "cannot_cancel")
                   /\ orders' = orders
                   /\ product' = product]_vars

\* the only order placed was cancelled, its stock is back, and a second
\* cancel has just been refused
C14_Witness ==
    /\ lastCall = Call("cancel", "cannot_cancel")
    /\ CreatedOrders = {1}
    /\ tracking[1] = <<"pending", "cancelled">>
    /\ orders[1].status = "cancelled"
    /\ product.stock_quantity = InitialStock

RECURSIVE SumQuantity(_)
SumQuantity(S) ==
    IF S = {} THEN 0
    ELSE LET o == CHOOSE x \in S : TRUE
         IN  orders[o].quantity + SumQuantity(S \ {o})

\* C15: whenever orders holding reserved stock enter status cancelled, by
\* cancel, update_status or bulk_update_status, their quantities are added
\* back to the product's stock in the same operation.
C15_CancelledRestoresStock ==
    [][LET entering == {o \in Orders : /\ orders[o].status \in
                                             {"pending", "confirmed", "in_progress"}
                                        /\ orders'[o].status = "cancelled"}
       IN  entering # {}
           => product'.stock_quantity =
                 product.stock_quantity + SumQuantity(entering)]_vars

\* a rate of 0 to 100 percent
ValidRate(rate) == rate \in 0..MaxRate

\* C16: for every gross amount g >= 0 and every commission rate of 0 to 100
\* percent, the commission and the net amount that are stored add up to g
\* exactly, on the Payment row and on the VendorEarning row.
C16_CommissionPlusNetIsGross ==
    /\ \A o \in Orders :
          payments[o].status # "none" /\ ValidRate(payments[o].commission_rate)
          => payments[o].commission_amount + payments[o].vendor_earnings
                = payments[o].amount
    /\ \A i \in 1..Len(earnings) :
          ValidRate(earnings[i].commission_rate)
          => earnings[i].commission_amount + earnings[i].net_amount
                = earnings[i].gross_amount

StoredRates ==
    {vendor.commission_rate, mpesa_config.default_commission_rate}
        \cup {payments[o].commission_rate : o \in {x \in Orders : payments[x].status # "none"}}
        \cup {earnings[i].commission_rate : i \in 1..Len(earnings)}

\* C18: a commission rate outside 0 to 100 percent is refused as a validation
\* error wherever a rate is set, the stored rate is left as it was (never
\* clamped), and no rate outside the range is ever stored.
C18_OutOfRangeRateRejected ==
    [][/\ \A rate \in RateInputs :
             ~ValidRate(rate) /\ lastCall'.op = "save_vendor" /\ SaveVendor(rate)
             => /\ lastCall'.resp = "validation_error"
                /\ vendor' = vendor
       /\ \A rate \in RateInputs :
             ~ValidRate(rate) /\ lastCall'.op = "set_default_rate"
                              /\ SetDefaultCommissionRate(rate)
             => /\ lastCall'.resp = "validation_error"
                /\ mpesa_config' = mpesa_config
       /\ \A o \in Orders, rate \in RateInputs, create_ok \in BOOLEAN :
             /\ ~ValidRate(rate)
             /\ lastCall'.op = "process_commission"
             /\ payments[o].status = "completed"
             /\ ProcessCommission(o, rate, create_ok)
             => /\ lastCall'.resp = "validation_error"
                /\ payments' = payments
       /\ \A r \in StoredRates' : ValidRate(r)]_vars

\* C19: an STK callback with a non-zero result code for a payment that is
\* pending or processing marks the payment failed, leaves the vendor ledger
\* as it was, creates no VendorEarning and does not mark the order paid.
C19_FailureCallbackLeavesLedger ==
    [][\A o \in Orders, code \in ResultCodes \ {0}, create_ok \in BOOLEAN :
          /\ lastCall'.op = "stk_callback"
          /\ payments[o].status \in {"pending", "processing"}
          /\ PaymentsWithTransactionId(payments[o].transaction_id) = {o}
          /\ HandleStkCallback(payments[o].transaction_id, code, create_ok)
          => /\ payments'[o].status = "failed"
             /\ vendor' = vendor
             /\ earnings' = earnings
             /\ orders' = orders]_vars

\* a payment failed by its first callback while the vendor holds earnings of
\* another payment and a payout is under way; the order is still unpaid
C19_Witness ==
    \E o \in Orders :
        /\ lastCall = Call("stk_callback", "ok")
        /\ stk_history[o] = <<1>>
        /\ payments[o].status = "failed"
        /\ payments[o].vendor_earning = 0
        /\ orders[o].payment_status = "pending"
        /\ vendor.total_earnings > 0
        /\ vendor.pending_payouts > 0

\* C20: a payment callback whose reference matches no Payment is answered
\* payment-not-found and changes no payment, earning, order or ledger value.
C20_UnknownReferenceChangesNothing ==
    [][\A c \in CheckoutIds, code \in ResultCodes, create_ok \in BOOLEAN :
          /\ lastCall'.op = "stk_callback"
          /\ \A o \in Orders : payments[o].status = "none" \/ payments[o].transaction_id # c
          /\ HandleStkCallback(c, code, create_ok)
          => /\ lastCall' = Call("stk_callback", "payment_not_found")
             /\ dbVars' = dbVars
             /\ stk_history' = stk_history
             /\ credits' = credits]_vars

\* a callback has just been answered payment-not-found while a payment is
\* waiting for its own callback
C20_Witness ==
    /\ lastCall = Call("stk_callback", "payment_not_found")
    /\ \E o \in Orders : payments[o].status = "processing" /\ stk_history[o] = <<>>

\* C21: every order has at most one Payment, and initiate_payment for an order
\* that already has a Payment, in whatever status, is refused and leaves the
\* payments as they were.
C21_OnePaymentPerOrder ==
    [][/\ \A o \in Orders : payments'[o].rows <= 1
       /\ \A o \in Orders, gw_ok \in BOOLEAN :
             /\ lastCall'.op = "initiate_payment"
             /\ payments[o].status # "none"
             /\ InitiatePayment(o, gw_ok)
             => /\ lastCall' = Call("initiate_payment", "payment_exists")
                /\ payments' = payments]_vars

\* a second initiate_payment has just been refused for an order whose
\* payment had failed, and for one whose payment is completed
C21_Witness ==
    /\ lastCall = Call("initiate_payment", "payment_exists")
    /\ \E o \in Orders : payments[o].status = "failed" /\ payments[o].rows = 1
    /\ \E o \in Orders : payments[o].status = "completed" /\ payments[o].rows = 1

\* the sum of the amounts of the payout requests S
RECURSIVE RequestTotal(_)
RequestTotal(S) ==
    IF S = {} THEN 0
    ELSE LET r == CHOOSE x \in S : TRUE
         IN  payout_requests[r].amount + RequestTotal(S \ {r})

\* the elements of a result list
ListedIn(list) == {list[i] : i \in DOMAIN list}

\* C22: bulk_process_payouts handles each approved request of the batch on
\* its own.  Every request of the batch is reported in exactly one of the two
\* lists; a request the gateway refuses is reported failed; when the balance
\* covers the others they are all submitted whatever failed before them;
\* and every submitted request keeps its processing status, its
\* PayoutTransaction and its deduction from the ledger.
C22_BulkItemsIndependent ==
    [][lastCall'.op = "bulk_process_payouts" /\ lastCall'.resp = "ok"
       => \A ids \in SUBSET {r \in PayoutRequestIds :
                                payout_requests[r].status = "approved"} :
          \A refused \in SUBSET ids :
          BulkProcessPayouts(ids, refused)
          => LET succ == ListedIn(lastCall'.successful)
                 fail == ListedIn(lastCall'.failed)
             IN  /\ succ \cup fail = ids
                 /\ succ \cap fail = {}
                 /\ Len(lastCall'.successful) + Len(lastCall'.failed) = Cardinality(ids)
                 /\ refused \subseteq fail
                 /\ RequestTotal(ids \ refused) <= vendor.available_balance
                       => succ = ids \ refused
                 /\ \A r \in succ :
                       /\ payout_requests'[r].status = "processing"
                       /\ \E t \in DOMAIN payout_transactions' :
                             /\ t > Len(payout_transactions)
                             /\ payout_transactions'[t].payout_reference = r
                             /\ payout_transactions'[t].status = "processing"
                 /\ Len(payout_transactions') =
                       Len(payout_transactions) + Cardinality(succ)
                 /\ vendor'.available_balance =
                       vendor.available_balance - RequestTotal(succ)
                 /\ vendor'.pending_payouts =
                       vendor.pending_payouts + RequestTotal(succ)]_vars

\* a batch of two has just been answered: the newer request was submitted
\* first and stays submitted, the older one was refused by the gateway
C22_Witness ==
    /\ lastCall.op = "bulk_process_payouts"
    /\ lastCall.successful = <<2>>
    /\ lastCall.failed = <<1>>
    /\ payout_requests[2].status = "processing"
    /\ payout_requests[1].status = "approved"
    /\ Len(payout_transactions) = 1
    /\ vendor.pending_payouts = payout_requests[2].amount
    /\ vendor.available_balance = 9000 - payout_requests[2].amount

C24_ZeroRateNetIsGross ==
    /\ \A o \in CreatedOrders :
          orders[o].commission_rate = 0
          => orders[o].vendor_earnings = orders[o].total_amount
    /\ \A o \in Orders :
          payments[o].status # "none" /\ payments[o].commission_rate = 0
          => /\ payments[o].commission_amount = 0
             /\ payments[o].vendor_earnings = payments[o].amount
    /\ \A i \in 1..Len(earnings) :
          earnings[i].commission_rate = 0
          => /\ earnings[i].commission_amount = 0
             /\ earnings[i].net_amount = earnings[i].gross_amount

\* the position of a VendorEarning status in pending -> processed -> paid
StatusRank(st) ==
    CASE st = "pending"   -> 0
      [] st = "processed" -> 1
      [] st = "paid"      -> 2
      [] OTHER            -> 3

C26_RetryReinitiates ==
    [][\A o \in Orders, gw_ok \in BOOLEAN :
          /\ lastCall'.op = "retry_payment"
          /\ HasPayment(o)
          /\ RetryPayment(o, gw_ok)
          => IF payments[o].status = "failed"
             THEN /\ gw_ok => /\ payments'[o].status = "processing"
                              /\ payments'[o].transaction_id # 0
                  /\ ~gw_ok => payments'[o].status = "failed"
             ELSE payments' = payments]_vars

ReservedBy(o) ==
    IF orders[o].order_type = "mixed" THEN SumItems(orders[o].items)
    ELSE orders[o].quantity

RECURSIVE SumReserved(_)
SumReserved(S) ==
    IF S = {} THEN 0
    ELSE LET o == CHOOSE x \in S : TRUE
         IN  ReservedBy(o) + SumReserved(S \ {o})

\* C28: after any sequence of gas-product order creations, mixed-order
\* creations and cancellations, the product's stock_quantity is >= 0 and
\* stock_quantity plus the quantities held by the orders that are not
\* cancelled is the initial stock.
C28_StockConserved ==
    /\ product.stock_quantity >= 0
    /\ product.stock_quantity
          + SumReserved({o \in CreatedOrders : orders[o].status # "cancelled"})
       = InitialStock

====
